---- MODULE Spec2Model ----
(***************************************************************************)
(* A model of mind-form-maker: the form builder (FormBuilder.tsx) with its *)
(* clarification dialog (ClarificationDialog.tsx), the schema-driven form  *)
(* (DynamicForm, second half of SharedForm.tsx), the shared-form page      *)
(* (SharedForm.tsx) and the row policies of the storage tables.            *)
(*                                                                         *)
(* Text the program inspects character by character (field values, the    *)
(* description, clarification answers) is a sequence of one-character      *)
(* strings; labels and messages, which are only concatenated and compared, *)
(* are TLA+ strings.                                                       *)
(***************************************************************************)
EXTENDS Naturals, Sequences, FiniteSets, TLC

VARIABLES
    page,               \* the mounted page: "builder", "shared", "home", "validator"
    description,        \* FormBuilder: useState("")
    isGenerating,       \* FormBuilder: useState(false)
    formSchema,         \* FormBuilder / SharedForm: useState(null)
    showClarification,  \* FormBuilder: useState(false)
    formId,             \* FormBuilder: useState(null)
    genCalls,           \* generateForm invocations suspended at an await
    timers,             \* pending setTimeout callbacks of handleClarificationSubmit
    answers,            \* ClarificationDialog: useState(questions.map(() => ''))
    prior,              \* history: the preview before the attempt the dialog is about
    formData,           \* DynamicForm: useState({})
    errors,             \* DynamicForm: useState({})
    isSubmitting,       \* DynamicForm: useState(false)
    submitted,          \* DynamicForm: useState(false)
    subCalls,           \* handleSubmit invocations suspended at the insert
    urlId,              \* SharedForm: useParams().id
    isLoading,          \* SharedForm: useState(true)
    fetchCall,          \* fetchForm's position: "idle", "pending", "done"
    forms,              \* storage: rows of public.forms
    submissions,        \* storage: rows of public.form_submissions
    toast,              \* the toast the latest step raised (NoToast: none)
    vField,             \* validator harness: the field under test
    vValue,             \* validator harness: the value under test
    vResult,            \* validator harness: the result of validateField
    vFirst              \* validator harness, history: the first pair validated

builderVars == <<description, isGenerating, formSchema, showClarification, formId,
                 genCalls, timers, answers, prior>>
formVars    == <<formData, errors, isSubmitting, submitted, subCalls>>
pageVars    == <<urlId, isLoading, fetchCall>>
storeVars   == <<forms, submissions>>
valVars     == <<vField, vValue, vResult, vFirst>>
vars        == <<page, builderVars, formVars, pageVars, storeVars, toast, valVars>>

(***************************************************************************)
(* Bounds of the model.                                                    *)
(***************************************************************************)
MaxGenCalls    == 2   \* generateForm invocations in flight at once
MaxTimers      == 1   \* pending auto-retry timers
MaxRounds      == 1   \* "Clarifications:" blocks in the description
MaxForms       == 1   \* rows of public.forms
MaxSubmissions == 1   \* rows of public.form_submissions
MaxSubCalls    == 2   \* inserts of submissions in flight at once
MaxLen         == 3   \* length of a value handed to the validator harness

(***************************************************************************)
(* JavaScript values.                                                      *)
(***************************************************************************)
NoError    == ""                  \* validateField's null: the value is accepted
NoId       == 0                   \* a form id that is null / undefined
NullSchema == [type |-> "null"]   \* formSchema === null
Hole       == <<"hole">>          \* an empty slot of a sparse array

EmptyMap == [k \in {} |-> ""]

MapSet(m, k, v) == [x \in DOMAIN m \cup {k} |-> IF x = k THEN v ELSE m[x]]

MapDelete(m, k) == [x \in DOMAIN m \ {k} |-> m[x]]

\* A lookup that validates an untouched field as the text "x".
MapGetUntouched(m, k) == IF k \in DOMAIN m THEN m[k] ELSE <<"x">>

\* m[k] || ''
MapGet(m, k) == IF k \in DOMAIN m THEN m[k] ELSE <<>>

Last(s) == s[Len(s)]

RemoveAt(s, i) == SubSeq(s, 1, i - 1) \o SubSeq(s, i + 1, Len(s))

(***************************************************************************)
(* Strings: String.prototype.trim and the fragment of RegExp the schemas   *)
(* use.  A pattern is an optional ^, a sequence of atoms (a character      *)
(* class, optionally followed by +) and an optional $.                     *)
(***************************************************************************)
WhiteSpace == {" ", "\n", "\t"}

IsBlank(s) == \A i \in 1..Len(s) : s[i] \in WhiteSpace

Trim(s) ==
    IF IsBlank(s) THEN <<>>
    ELSE LET first == CHOOSE i \in 1..Len(s) :
                          s[i] \notin WhiteSpace /\ \A j \in 1..(i - 1) : s[j] \in WhiteSpace
             last  == CHOOSE i \in 1..Len(s) :
                          s[i] \notin WhiteSpace /\ \A j \in (i + 1)..Len(s) : s[j] \in WhiteSpace
         IN  SubSeq(s, first, last)

Digits == {"0", "1", "2", "3", "4", "5", "6", "7", "8", "9"}

\* The characters of the model's texts.
Char == {"a", "b", "c", "x", "y", "n", "d", "1", "2", "@", ".", " ", "-", "+", "(", ")",
         "\n", ":", "e", "i", "l", "m", "o", "t"}

Atom(cls, plus) == [cls |-> cls, plus |-> plus]

Pattern(anchS, atoms, anchE) == [anchS |-> anchS, atoms |-> atoms, anchE |-> anchE]

\* The positions at which a match of atoms[k..] that starts at position i of v can end
\* (the index after the last matched character).
RECURSIVE MatchEnds(_, _, _, _)
MatchEnds(atoms, k, v, i) ==
    IF k > Len(atoms) THEN {i}
    ELSE IF i > Len(v) \/ v[i] \notin atoms[k].cls THEN {}
    ELSE MatchEnds(atoms, k + 1, v, i + 1)
         \cup (IF atoms[k].plus THEN MatchEnds(atoms, k, v, i + 1) ELSE {})

\* regex.test(v): some substring of v matches; ^ and $ tie it to the ends of v.
RegExpTest(p, v) ==
    \E i \in 1..(Len(v) + 1) :
        /\ p.anchS => i = 1
        /\ \E j \in MatchEnds(p.atoms, 1, v, i) : p.anchE => j = Len(v) + 1

NotSpaceAt == Char \ (WhiteSpace \cup {"@"})

\* /^[^\s@]+@[^\s@]+\.[^\s@]+$/
emailRegex ==
    Pattern(TRUE, <<Atom(NotSpaceAt, TRUE), Atom({"@"}, FALSE), Atom(NotSpaceAt, TRUE),
                    Atom({"."}, FALSE), Atom(NotSpaceAt, TRUE)>>, TRUE)

\* /^[\d\s\-\+\(\)]+$/
phoneRegex ==
    Pattern(TRUE, <<Atom(Digits \cup WhiteSpace \cup {"-", "+", "(", ")"}, TRUE)>>, TRUE)

(***************************************************************************)
(* Field definitions and validateField.                                    *)
(***************************************************************************)
FieldTypes == {"text", "email", "tel", "number", "select", "textarea"}

NoPattern == [none |-> TRUE]   \* field.validation?.pattern is undefined
NoMessage == ""                \* field.validation.message is undefined (or empty: both falsy)

\* ^[^\s@]+@[^\s@]+$ : an address without the dot the built-in check insists on
PatAddress ==
    Pattern(TRUE, <<Atom(NotSpaceAt, TRUE), Atom({"@"}, FALSE), Atom(NotSpaceAt, TRUE)>>, TRUE)

\* \d\d : two digits, not anchored
PatTwoDigits == Pattern(FALSE, <<Atom(Digits, FALSE), Atom(Digits, FALSE)>>, FALSE)

\* ^\d+$ : digits only, anchored
PatAllDigits == Pattern(TRUE, <<Atom(Digits, TRUE)>>, TRUE)

Patterns == {PatAddress, PatTwoDigits, PatAllDigits}

Field(id, label, type, required, pattern, message) ==
    [id |-> id, label |-> label, type |-> type, required |-> required,
     pattern |-> pattern, message |-> message]

HasPattern(field) == field.pattern # NoPattern

\* A validator whose required check does not trim the value.
validateFieldNoTrim(field, value) ==
    IF field.required /\ value = <<>> THEN field.label \o " is required"
    ELSE IF value # <<>> /\ HasPattern(field) /\ ~RegExpTest(field.pattern, value)
    THEN IF field.message # NoMessage THEN field.message ELSE "Invalid " \o field.label
    ELSE IF value # <<>> /\ field.type = "email" /\ ~RegExpTest(emailRegex, value)
    THEN "Invalid email address"
    ELSE IF value # <<>> /\ field.type = "tel" /\ ~RegExpTest(phoneRegex, value)
    THEN "Invalid phone number"
    ELSE NoError

\* A validator without the built-in telephone check.
validateFieldNoTel(field, value) ==
    IF field.required /\ Trim(value) = <<>> THEN field.label \o " is required"
    ELSE IF value # <<>> /\ HasPattern(field) /\ ~RegExpTest(field.pattern, value)
    THEN IF field.message # NoMessage THEN field.message ELSE "Invalid " \o field.label
    ELSE IF value # <<>> /\ field.type = "email" /\ ~RegExpTest(emailRegex, value)
    THEN "Invalid email address"
    ELSE NoError

\* A validator that ignores the custom message of a pattern.
validateFieldDefaultMessage(field, value) ==
    IF field.required /\ Trim(value) = <<>> THEN field.label \o " is required"
    ELSE IF value # <<>> /\ HasPattern(field) /\ ~RegExpTest(field.pattern, value)
    THEN "Invalid " \o field.label
    ELSE IF value # <<>> /\ field.type = "email" /\ ~RegExpTest(emailRegex, value)
    THEN "Invalid email address"
    ELSE IF value # <<>> /\ field.type = "tel" /\ ~RegExpTest(phoneRegex, value)
    THEN "Invalid phone number"
    ELSE NoError

\* validateField returns the first message one of its four checks produces, null if none.
validateField(field, value) ==
    IF field.required /\ Trim(value) = <<>> THEN field.label \o " is required"
    ELSE IF value # <<>> /\ HasPattern(field) /\ ~RegExpTest(field.pattern, value)
    THEN IF field.message # NoMessage THEN field.message ELSE "Invalid " \o field.label
    ELSE IF value # <<>> /\ field.type = "email" /\ ~RegExpTest(emailRegex, value)
    THEN "Invalid email address"
    ELSE IF value # <<>> /\ field.type = "tel" /\ ~RegExpTest(phoneRegex, value)
    THEN "Invalid phone number"
    ELSE NoError


(***************************************************************************)
(* Generation results and the schemas of the model.                        *)
(***************************************************************************)
FormSchema(title, fields) == [type |-> "form", title |-> title, fields |-> fields]

Clarification(contradiction, questions) ==
    [type |-> "clarification", contradiction |-> contradiction, questions |-> questions]

SchemaContact ==
    FormSchema("Contact", <<Field("email", "Email", "email", TRUE, NoPattern, NoMessage)>>)

SchemaSignup ==
    FormSchema("Signup", <<Field("email", "Work email", "email", TRUE, PatAddress,
                                 "Use your work address"),
                           Field("pin", "PIN", "text", FALSE, PatTwoDigits, NoMessage)>>)

\* A result whose type tag is missing or unknown.
SchemaUntagged ==
    [type |-> "other", title |-> "Untagged",
     fields |-> <<Field("email", "Email", "text", FALSE, NoPattern, NoMessage)>>]

ClarOne == Clarification("anonymous, yet asks for a phone number", <<"Q1">>)

ClarTwo == Clarification("optional, yet required", <<"Q1", "Q2">>)

FormSchemas == {SchemaContact, SchemaSignup}

\* What the gateway can answer a generation request with.
GenerationResults == FormSchemas \cup {ClarOne, ClarTwo, SchemaUntagged}

\* What the user types into a field of the builder's preview.
PreviewValues == {<<"a", "@", "b", ".", "c">>}

\* What the user types into a field of a form.
FormValues == {<<>>, <<" ">>, <<"a", "@", "b">>, <<"a", "@", "b", ".", "c">>,
               <<"1", "2">>, <<"x", "1", "2">>}

\* schema.fields?. : no fields when the schema has none
Fields(schema) == IF "fields" \in DOMAIN schema THEN schema.fields ELSE <<>>

FieldIds(schema) == {Fields(schema)[i].id : i \in 1..Len(Fields(schema))}

\* schema.title || 'Untitled Form'
Title(schema) ==
    IF "title" \in DOMAIN schema /\ schema.title # "" THEN schema.title ELSE "Untitled Form"

(***************************************************************************)
(* Toast messages.                                                         *)
(***************************************************************************)
NoToast              == "none"
ToastFixErrors       == "Please fix the errors in the form"
ToastSubmitted       == "Form submitted successfully!"
ToastSubmitFailed    == "Failed to submit form. Please try again."
ToastDescribe        == "Please describe the form you want to create"
ToastGenerateFailed  == "Failed to generate form. Please try again."
ToastClarification   == "We need some clarification about your form"
ToastNoLink          == "Form generated but couldn't create shareable link"
ToastGenerated       == "Form generated successfully!"
ToastGenerateError   == "An error occurred while generating the form"
ToastInvalidLink     == "Invalid form link"
ToastLoadFailed      == "Failed to load form"
ToastNotFound        == "Form not found"
ToastNotAccepting    == "This form is no longer accepting responses"
ToastLoadError       == "An error occurred while loading the form"

(***************************************************************************)
(* DynamicForm.                                                            *)
(***************************************************************************)
\* Where a DynamicForm is rendered: the builder's preview and the shared-form page.
DynamicFormMounted ==
    \/ page = "builder" /\ formSchema.type = "form"
    \/ page = "shared" /\ ~isLoading /\ formSchema # NullSchema

\* The formId prop: the builder's preview passes none, the shared-form page its id.
FormIdProp == IF page = "shared" THEN urlId ELSE NoId

\* The form view (not the "Form Submitted!" view) is on screen.
FormViewShown == DynamicFormMounted /\ ~submitted

\* The Submit Form button: disabled={isSubmitting}
SubmitEnabledAlways == TRUE

SubmitEnabled == ~isSubmitting

\* A freshly mounted DynamicForm: the initial values of its four useState cells.  The
\* handleSubmit calls of the instance that went away can no longer set state.
MountDynamicForm ==
    /\ formData' = EmptyMap
    /\ errors' = EmptyMap
    /\ isSubmitting' = FALSE
    /\ submitted' = FALSE
    /\ subCalls' = [i \in DOMAIN subCalls |-> [subCalls[i] EXCEPT !.live = FALSE]]

\* React's reconciliation of the DynamicForm element across a render of its host:
\* an instance that stays at its place keeps its state, whatever its props become.
RenderDynamicForm(mountedAfter) ==
    IF DynamicFormMounted /\ mountedAfter THEN UNCHANGED formVars ELSE MountDynamicForm

\* The loop of handleSubmit over schema.fields, from field i on.
RECURSIVE CollectErrorsFirstOnly(_, _, _, _)
CollectErrorsFirstOnly(fields, i, data, acc) ==
    IF i > Len(fields) THEN acc
    ELSE LET error == validateField(fields[i], MapGet(data, fields[i].id))
         IN  IF error # NoError THEN MapSet(acc, fields[i].id, error)
             ELSE CollectErrorsFirstOnly(fields, i + 1, data, acc)

RECURSIVE CollectErrors(_, _, _, _)
CollectErrors(fields, i, data, acc) ==
    IF i > Len(fields) THEN acc
    ELSE LET error == validateField(fields[i], MapGet(data, fields[i].id))
         IN  CollectErrors(fields, i + 1, data,
                           IF error # NoError THEN MapSet(acc, fields[i].id, error) ELSE acc)

\* The submission handleSubmit hands to storage.
SubmissionRow(schema, data, id) ==
    [form_title |-> Title(schema), form_data |-> data, form_id |-> id]

\* The guard of handleSubmit between the validation pass and the insert.
HasErrorsNever(newErrors) == FALSE

HasErrors(newErrors) == DOMAIN newErrors # {}

HandleSubmit ==
    /\ FormViewShown
    /\ SubmitEnabled
    /\ LET newErrors == CollectErrors(Fields(formSchema), 1, formData, EmptyMap)
       IN  IF HasErrors(newErrors)
           THEN /\ errors' = newErrors
                /\ toast' = ToastFixErrors
                /\ UNCHANGED <<formData, isSubmitting, submitted, subCalls>>
           ELSE /\ Len(subCalls) < MaxSubCalls
                /\ isSubmitting' = TRUE
                /\ subCalls' = Append(subCalls,
                                      [row  |-> SubmissionRow(formSchema, formData, FormIdProp),
                                       live |-> TRUE])
                /\ toast' = NoToast
                /\ UNCHANGED <<formData, errors, submitted>>
    /\ UNCHANGED <<page, builderVars, pageVars, storeVars, valVars>>

\* A policy that only asks for the form to exist.
InsertAllowedAnyForm(row) == \E f \in forms : f.id = row.form_id

\* The policy "Anyone can submit to active forms" on form_submissions.
InsertAllowed(row) == \E f \in forms : f.id = row.form_id /\ f.accepting_responses

\* What the failure branch of handleSubmit leaves in the Answer Map.
FormDataAfterFailureCleared(data) == EmptyMap

FormDataAfterFailure(data) == data

\* A handleSubmit that keeps the answers and the errors after a stored submission.
InsertRespondKeepsAnswers(i, ok) ==
    /\ i \in DOMAIN subCalls
    /\ ok => InsertAllowed(subCalls[i].row) /\ Len(submissions) < MaxSubmissions
    /\ submissions' = IF ok THEN Append(submissions, subCalls[i].row) ELSE submissions
    /\ toast' = IF ok THEN ToastSubmitted ELSE ToastSubmitFailed
    /\ subCalls' = RemoveAt(subCalls, i)
    /\ IF ~subCalls[i].live
       THEN UNCHANGED <<formData, errors, isSubmitting, submitted>>
       ELSE /\ isSubmitting' = FALSE
            /\ submitted' = (ok \/ submitted)
            /\ UNCHANGED <<formData, errors>>
    /\ UNCHANGED <<page, builderVars, pageVars, forms, valVars>>

\* The insert of call i comes back: the row is stored, or storage reports an error (the
\* policy rejects the row, or the request fails).
InsertRespond(i, ok) ==
    /\ i \in DOMAIN subCalls
    /\ ok => InsertAllowed(subCalls[i].row) /\ Len(submissions) < MaxSubmissions
    /\ submissions' = IF ok THEN Append(submissions, subCalls[i].row) ELSE submissions
    /\ toast' = IF ok THEN ToastSubmitted ELSE ToastSubmitFailed
    /\ subCalls' = RemoveAt(subCalls, i)
    /\ IF ~subCalls[i].live
       THEN UNCHANGED <<formData, errors, isSubmitting, submitted>>
       ELSE /\ isSubmitting' = FALSE
            /\ submitted' = (ok \/ submitted)
            /\ formData' = IF ok THEN EmptyMap ELSE FormDataAfterFailure(formData)
            /\ errors' = IF ok THEN EmptyMap ELSE errors
    /\ UNCHANGED <<page, builderVars, pageVars, forms, valVars>>

\* A handleChange that validates the field as the user types.
HandleChangeValidates(fieldId, value) ==
    /\ FormViewShown
    /\ fieldId \in FieldIds(formSchema)
    /\ formData' = MapSet(formData, fieldId, value)
    /\ LET field == CHOOSE f \in {Fields(formSchema)[i] : i \in 1..Len(Fields(formSchema))} :
                        f.id = fieldId
           error == validateField(field, value)
       IN  errors' = IF error # NoError THEN MapSet(errors, fieldId, error)
                     ELSE MapDelete(errors, fieldId)
    /\ UNCHANGED <<isSubmitting, submitted, subCalls>>
    /\ UNCHANGED <<page, builderVars, pageVars, storeVars, valVars>>
    /\ toast' = NoToast

\* handleChange: the onChange of every control.
HandleChange(fieldId, value) ==
    /\ FormViewShown
    /\ fieldId \in FieldIds(formSchema)
    /\ formData' = MapSet(formData, fieldId, value)
    /\ errors' = IF fieldId \in DOMAIN errors /\ errors[fieldId] # ""
                 THEN MapDelete(errors, fieldId) ELSE errors
    /\ UNCHANGED <<isSubmitting, submitted, subCalls>>
    /\ UNCHANGED <<page, builderVars, pageVars, storeVars, valVars>>
    /\ toast' = NoToast

\* The "Submit Another" button of the submitted view.
SubmitAnother ==
    /\ DynamicFormMounted
    /\ submitted
    /\ submitted' = FALSE
    /\ UNCHANGED <<formData, errors, isSubmitting, subCalls>>
    /\ UNCHANGED <<page, builderVars, pageVars, storeVars, valVars>>
    /\ toast' = NoToast

(***************************************************************************)
(* The shared-form page.                                                   *)
(***************************************************************************)
FormRow(id, schema, accepting) ==
    [id |-> id, schema |-> schema, accepting_responses |-> accepting]

\* The effect that runs fetchForm when the page mounts.
FetchForm ==
    /\ page = "shared"
    /\ fetchCall = "idle"
    /\ IF urlId = NoId
       THEN /\ toast' = ToastInvalidLink
            /\ isLoading' = FALSE
            /\ fetchCall' = "done"
       ELSE /\ fetchCall' = "pending"
            /\ toast' = NoToast
            /\ UNCHANGED isLoading
    /\ UNCHANGED <<page, builderVars, formVars, urlId, storeVars, valVars>>

\* The select of fetchForm comes back: an error, a thrown exception, or the row (if any).
FetchRespond(outcome) ==
    /\ page = "shared"
    /\ fetchCall = "pending"
    /\ fetchCall' = "done"
    /\ isLoading' = FALSE
    /\ LET rows == {f \in forms : f.id = urlId}
       IN  IF outcome = "error"
           THEN toast' = ToastLoadFailed /\ UNCHANGED formSchema
           ELSE IF outcome = "throw"
           THEN toast' = ToastLoadError /\ UNCHANGED formSchema
           ELSE IF rows = {}
           THEN toast' = ToastNotFound /\ UNCHANGED formSchema
           ELSE LET data == CHOOSE f \in rows : TRUE
                IN  /\ toast' = IF ~data.accepting_responses
                                THEN ToastNotAccepting ELSE NoToast
                    /\ formSchema' = data.schema
    /\ UNCHANGED <<page, description, isGenerating, showClarification, formId, genCalls,
                   timers, answers, prior, formVars, urlId, storeVars, valVars>>

\* navigate('/'): Go Home, Back to Home, and the form's New Form / Create New Form.
NavigateHome ==
    /\ page = "shared"
    /\ ~isLoading
    /\ page' = "home"
    /\ MountDynamicForm
    /\ UNCHANGED <<builderVars, pageVars, storeVars, valVars>>
    /\ toast' = NoToast

\* The owner's dashboard flips accepting_responses of a form.
ToggleFormStatus(id) ==
    /\ \E f \in forms : f.id = id
    /\ forms' = {IF f.id = id THEN [f EXCEPT !.accepting_responses = ~f.accepting_responses]
                 ELSE f : f \in forms}
    /\ UNCHANGED <<page, builderVars, formVars, pageVars, submissions, valVars>>
    /\ toast' = NoToast

(***************************************************************************)
(* The clarification dialog.                                               *)
(***************************************************************************)
\* formSchema.questions || []
Questions(schema) == IF "questions" \in DOMAIN schema THEN schema.questions ELSE <<>>

\* The dialog is rendered (mounted) while the schema is a clarification, and open
\* (modal, over the builder) while showClarification is set as well.
DialogMounted == page = "builder" /\ formSchema.type = "clarification"

DialogOpen == DialogMounted /\ showClarification

\* What the preview panel shows for a schema: the form, or the empty placeholder
\* (formSchema?.type === 'form' ? <DynamicForm .../> : ...).
Displayed(schema) == IF schema.type = "form" THEN schema ELSE NullSchema

\* The preview panel as the user sees it, and the one of a builder without a form.
Preview == [schema |-> Displayed(formSchema), formId |-> formId]

NoPreview == [schema |-> NullSchema, formId |-> NoId]

\* React's reconciliation of the dialog across a render of the builder: a dialog that
\* stays mounted keeps its answers; a newly mounted one starts from
\* questions.map(() => '').
RenderDialog(schemaAfter) ==
    answers' = IF schemaAfter.type # "clarification" THEN <<>>
               ELSE IF DialogMounted THEN answers
               ELSE [i \in 1..Len(Questions(schemaAfter)) |-> <<>>]

\* answers.some(answer => !answer.trim()): some() skips the holes of a sparse array
SomeBlank(as) == \E i \in 1..Len(as) : as[i] # Hole /\ Trim(as[i]) = <<>>

\* newAnswers[index] = value, on a copy: an index past the end leaves holes before it
SetAt(as, index, value) ==
    [i \in 1..(IF index > Len(as) THEN index ELSE Len(as)) |->
        IF i = index THEN value ELSE IF i <= Len(as) THEN as[i] ELSE Hole]

\* A join that lists the answers last to first.
RECURSIVE JoinReversed(_)
JoinReversed(as) ==
    IF as = <<>> THEN <<>>
    ELSE LET last == IF as[Len(as)] = Hole THEN <<>> ELSE as[Len(as)]
         IN  IF Len(as) = 1 THEN last
             ELSE last \o <<"\n">> \o JoinReversed(SubSeq(as, 1, Len(as) - 1))

\* answers.join('\n'): a hole joins as the empty string
RECURSIVE Join(_)
Join(as) ==
    IF as = <<>> THEN <<>>
    ELSE LET head == IF Head(as) = Hole THEN <<>> ELSE Head(as)
         IN  IF Len(as) = 1 THEN head ELSE head \o <<"\n">> \o Join(Tail(as))

\* The questions of the longest clarification request.
MaxQuestions == Len(ClarTwo.questions)

\* What the user types into an answer slot.
AnswerValues == {<<" ">>, <<"y">>}

HandleAnswerChange(index, value) ==
    /\ DialogOpen
    /\ index \in 1..Len(Questions(formSchema))
    /\ answers' = SetAt(answers, index, value)
    /\ UNCHANGED <<description, isGenerating, formSchema, showClarification, formId,
                   genCalls, timers, prior>>
    /\ UNCHANGED <<page, formVars, pageVars, storeVars, valVars>>
    /\ toast' = NoToast

\* A Cancel button that closes the dialog and generates again.
DialogCancelRegenerates ==
    /\ DialogOpen
    /\ showClarification' = FALSE
    /\ Len(genCalls) < MaxGenCalls
    /\ isGenerating' = TRUE
    /\ genCalls' = Append(genCalls, [description |-> description, pc |-> "invoke",
                                     data |-> NullSchema, abandoned |-> FALSE,
                                     before |-> Preview])
    /\ UNCHANGED <<description, formSchema, formId, timers, answers, prior>>
    /\ UNCHANGED <<page, formVars, pageVars, storeVars, valVars>>
    /\ toast' = NoToast

\* The Cancel button: onOpenChange(false)
DialogCancel ==
    /\ DialogOpen
    /\ showClarification' = FALSE
    /\ UNCHANGED <<description, isGenerating, formSchema, formId, genCalls, timers, answers,
                   prior>>
    /\ UNCHANGED <<page, formVars, pageVars, storeVars, valVars>>
    /\ toast' = NoToast

(***************************************************************************)
(* The form builder.                                                       *)
(***************************************************************************)
\* What the user types into the description.
Descriptions == {<<"d">>}

\* `\n\nClarifications:\n`
ClarificationsHeader ==
    <<"\n", "\n", "C", "l", "a", "r", "i", "f", "i", "c", "a", "t", "i", "o", "n", "s",
      ":", "\n">>

\* The clarification rounds a description went through.
Rounds(text) == Cardinality({i \in 1..Len(text) : text[i] = ":"})

\* A generateForm invocation suspended at an await: the description its closure holds,
\* where it waits ("invoke": the gateway, "save": the insert into forms) and the result
\* it received.  abandoned and before are history, read by no action: handleFormReset
\* ran meanwhile; the preview when the attempt began.
GenCall(text) ==
    [description |-> text, pc |-> "invoke", data |-> NullSchema, abandoned |-> FALSE,
     before |-> Preview]

\* generateForm, up to its first await, run by a closure that holds `text`.
generateForm(text) ==
    IF Trim(text) = <<>>
    THEN /\ toast' = ToastDescribe
         /\ UNCHANGED <<isGenerating, genCalls>>
    ELSE /\ Len(genCalls) < MaxGenCalls
         /\ isGenerating' = TRUE
         /\ genCalls' = Append(genCalls, GenCall(text))
         /\ toast' = NoToast

\* The Generate Form button: disabled={isGenerating || !description.trim()}
GenerateEnabled == ~isGenerating /\ Trim(description) # <<>>

SetDescription(text) ==
    /\ page = "builder"
    /\ ~isGenerating
    /\ ~DialogOpen
    /\ description' = text
    /\ UNCHANGED <<isGenerating, formSchema, showClarification, formId, genCalls, timers,
                   answers, prior>>
    /\ UNCHANGED <<page, formVars, pageVars, storeVars, valVars>>
    /\ toast' = NoToast

ClickGenerate ==
    /\ page = "builder"
    /\ GenerateEnabled
    /\ ~DialogOpen
    /\ generateForm(description)
    /\ UNCHANGED <<description, formSchema, showClarification, formId, timers, answers,
                   prior>>
    /\ UNCHANGED <<page, formVars, pageVars, storeVars, valVars>>

\* The description the callback of setTimeout(() => generateForm(), 100) generates
\* from: generateForm is the closure of the render that handled the click.
TimerDescription(before, updated) == before

\* A pending timer: the description its generateForm closure holds.  updated is
\* history, read by no action: the description handleClarificationSubmit set.
Timer(before, updated) ==
    [description |-> TimerDescription(before, updated), updated |-> updated]

\* The dialog's handleSubmit and the builder's handleClarificationSubmit it calls.
HandleClarificationSubmit ==
    /\ DialogOpen
    /\ ~SomeBlank(answers)
    /\ Len(timers) < MaxTimers
    /\ Rounds(description) < MaxRounds
    /\ LET updatedDescription == description \o ClarificationsHeader \o Join(answers)
       IN  /\ description' = updatedDescription
           /\ timers' = Append(timers, Timer(description, updatedDescription))
    /\ showClarification' = FALSE
    /\ formSchema' = NullSchema
    /\ RenderDialog(NullSchema)
    /\ RenderDynamicForm(FALSE)
    /\ prior' = NoPreview
    /\ UNCHANGED <<isGenerating, formId, genCalls>>
    /\ UNCHANGED <<page, pageVars, storeVars, valVars>>
    /\ toast' = NoToast

\* The 100 ms timer of handleClarificationSubmit fires.
TimerFire ==
    /\ timers # <<>>
    /\ generateForm(Head(timers).description)
    /\ timers' = Tail(timers)
    /\ UNCHANGED <<description, formSchema, showClarification, formId, answers, prior>>
    /\ UNCHANGED <<page, formVars, pageVars, storeVars, valVars>>

\* The failure modes of the gateway, all of which invoke() reports as `error`.
FailureKinds == {"rate limit", "credits", "malformed"}

\* The toast of a gateway failure.
ErrorToast(kind) == ToastGenerateFailed

\* A failure handler that also empties the description.
GatewayFailClears(i, kind) ==
    /\ i \in DOMAIN genCalls
    /\ genCalls[i].pc = "invoke"
    /\ toast' = ErrorToast(kind)
    /\ isGenerating' = FALSE
    /\ genCalls' = RemoveAt(genCalls, i)
    /\ description' = <<>>
    /\ UNCHANGED <<formSchema, showClarification, formId, timers, answers, prior>>
    /\ UNCHANGED <<page, formVars, pageVars, storeVars, valVars>>

\* invoke() of call i comes back with an error.
GatewayFail(i, kind) ==
    /\ i \in DOMAIN genCalls
    /\ genCalls[i].pc = "invoke"
    /\ toast' = ErrorToast(kind)
    /\ isGenerating' = FALSE
    /\ genCalls' = RemoveAt(genCalls, i)
    /\ UNCHANGED <<description, formSchema, showClarification, formId, timers, answers,
                   prior>>
    /\ UNCHANGED <<page, formVars, pageVars, storeVars, valVars>>

\* invoke() of call i throws.
GatewayThrow(i) ==
    /\ i \in DOMAIN genCalls
    /\ genCalls[i].pc = "invoke"
    /\ toast' = ToastGenerateError
    /\ isGenerating' = FALSE
    /\ genCalls' = RemoveAt(genCalls, i)
    /\ UNCHANGED <<description, formSchema, showClarification, formId, timers, answers,
                   prior>>
    /\ UNCHANGED <<page, formVars, pageVars, storeVars, valVars>>

\* invoke() of call i comes back with a generation result.
GatewayRespond(i, data) ==
    /\ i \in DOMAIN genCalls
    /\ genCalls[i].pc = "invoke"
    /\ formSchema' = data
    /\ RenderDialog(data)
    /\ RenderDynamicForm(data.type = "form")
    /\ IF data.type = "clarification"
       THEN /\ showClarification' = TRUE
            /\ toast' = ToastClarification
            /\ isGenerating' = FALSE
            /\ genCalls' = RemoveAt(genCalls, i)
            /\ prior' = genCalls[i].before
       ELSE /\ genCalls' = [genCalls EXCEPT ![i].pc = "save", ![i].data = data]
            /\ toast' = NoToast
            /\ prior' = NoPreview
            /\ UNCHANGED <<showClarification, isGenerating>>
    /\ UNCHANGED <<description, formId, timers>>
    /\ UNCHANGED <<page, pageVars, storeVars, valVars>>

\* The insert into forms of call i comes back: the saved row, or an error.  Whether
\* storage admits the row is decided by the insert policy of forms ("Users can create
\* their own forms", on the user of the session and the row's user_id), which the
\* builder neither sees nor feeds: both outcomes.
SaveRespond(i, ok) ==
    /\ i \in DOMAIN genCalls
    /\ genCalls[i].pc = "save"
    /\ ok => Cardinality(forms) < MaxForms
    /\ LET id == Cardinality(forms) + 1
       IN  IF ok
           THEN /\ forms' = forms \cup {FormRow(id, genCalls[i].data, TRUE)}
                /\ formId' = id
                /\ toast' = ToastGenerated
           ELSE /\ toast' = ToastNoLink
                /\ UNCHANGED <<forms, formId>>
    /\ isGenerating' = FALSE
    /\ genCalls' = RemoveAt(genCalls, i)
    /\ UNCHANGED <<description, formSchema, showClarification, timers, answers, prior>>
    /\ UNCHANGED <<page, formVars, pageVars, submissions, valVars>>

\* handleFormReset: the form's New Form and Create New Form buttons.
HandleFormReset ==
    /\ page = "builder"
    /\ DynamicFormMounted
    /\ formSchema' = NullSchema
    /\ description' = <<>>
    /\ formId' = NoId
    /\ genCalls' = [i \in DOMAIN genCalls |-> [genCalls[i] EXCEPT !.abandoned = TRUE]]
    /\ RenderDialog(NullSchema)
    /\ RenderDynamicForm(FALSE)
    /\ prior' = NoPreview
    /\ UNCHANGED <<isGenerating, showClarification, timers>>
    /\ UNCHANGED <<page, pageVars, storeVars, valVars>>
    /\ toast' = NoToast

(***************************************************************************)
(* The validator harness: validateField applied to a field and a value.    *)
(***************************************************************************)
RECURSIVE Strings(_, _)
Strings(alphabet, n) ==
    IF n = 0 THEN {<<>>}
    ELSE LET shorter == Strings(alphabet, n - 1)
         IN  shorter \cup {Append(s, c) : s \in shorter, c \in alphabet}

HarnessChars == {"a", "1", "@", ".", " "}

HarnessValues == Strings(HarnessChars, MaxLen) \cup FormValues

HarnessFields ==
    {Field("f", "F", t, r, p, m) :
        t \in FieldTypes, r \in BOOLEAN, p \in Patterns \cup {NoPattern},
        m \in {NoMessage, "Custom message"}}

Pending == "pending"

\* The first value validated, its result and how often it was validated (up to
\* twice).  History, read by no action.
NoneValidated == [value |-> <<>>, result |-> Pending, times |-> 0]

Validated(first, value, result) ==
    IF first.times = 0 THEN [value |-> value, result |-> result, times |-> 1]
    ELSE IF value = first.value THEN [first EXCEPT !.times = 2]
    ELSE first

\* A validator with a memory: it accepts nothing once it has been called.
ValidateSticky ==
    /\ page = "validator"
    /\ vResult = Pending
    /\ LET result == IF vFirst.times = 0 THEN validateField(vField, vValue)
                     ELSE "Invalid " \o vField.label
       IN  /\ vResult' = result
           /\ vFirst' = Validated(vFirst, vValue, result)
    /\ UNCHANGED <<page, builderVars, formVars, pageVars, storeVars, vField, vValue>>
    /\ toast' = NoToast

Validate ==
    /\ page = "validator"
    /\ vResult = Pending
    /\ vResult' = validateField(vField, vValue)
    /\ vFirst' = Validated(vFirst, vValue, validateField(vField, vValue))
    /\ UNCHANGED <<page, builderVars, formVars, pageVars, storeVars, vField, vValue>>
    /\ toast' = NoToast

\* The next value of the field is handed to the validator.
Rearm(value) ==
    /\ page = "validator"
    /\ vResult # Pending
    /\ vValue' = value
    /\ vResult' = Pending
    /\ UNCHANGED <<page, builderVars, formVars, pageVars, storeVars, vField, vFirst>>
    /\ toast' = NoToast

(***************************************************************************)
(* Initial states and specifications.                                      *)
(***************************************************************************)
InitCommon ==
    /\ description = <<>>
    /\ isGenerating = FALSE
    /\ formSchema = NullSchema
    /\ showClarification = FALSE
    /\ formId = NoId
    /\ genCalls = <<>>
    /\ timers = <<>>
    /\ answers = <<>>
    /\ prior = NoPreview
    /\ formData = EmptyMap
    /\ errors = EmptyMap
    /\ isSubmitting = FALSE
    /\ submitted = FALSE
    /\ subCalls = <<>>
    /\ isLoading = TRUE
    /\ fetchCall = "idle"
    /\ submissions = <<>>
    /\ toast = NoToast

HarnessIdle ==
    /\ vField = Field("f", "F", "text", FALSE, NoPattern, NoMessage)
    /\ vValue = <<>>
    /\ vResult = Pending
    /\ vFirst = NoneValidated

\* The builder page, with an empty forms table.
Init ==
    /\ InitCommon
    /\ HarnessIdle
    /\ page = "builder"
    /\ urlId = NoId
    /\ forms = {}

\* What the gateway answers during a negotiation: a form, or one or two questions.
NegotiationResults == {SchemaContact, ClarOne, ClarTwo}

\* The user negotiates a form with the gateway: every event of the builder and of the
\* clarification dialog, in any order.
Next ==
    \/ \E text \in Descriptions : SetDescription(text)
    \/ ClickGenerate
    \/ TimerFire
    \/ \E i \in 1..MaxGenCalls, kind \in FailureKinds : GatewayFail(i, kind)
    \/ \E i \in 1..MaxGenCalls : GatewayThrow(i)
    \/ \E i \in 1..MaxGenCalls, data \in NegotiationResults : GatewayRespond(i, data)
    \/ \E i \in 1..MaxGenCalls, ok \in BOOLEAN : SaveRespond(i, ok)
    \/ \E index \in 1..MaxQuestions, value \in AnswerValues : HandleAnswerChange(index, value)
    \/ DialogCancel
    \/ HandleClarificationSubmit
    \/ HandleFormReset

Spec == Init /\ [][Next]_vars

\* The user generates forms and fills in the preview: the events of the builder that
\* put a form on screen or take it away, and every event of the form.
NextPreview ==
    \/ \E text \in Descriptions : SetDescription(text)
    \/ ClickGenerate
    \/ \E i \in 1..MaxGenCalls, kind \in FailureKinds : GatewayFail(i, kind)
    \/ \E i \in 1..MaxGenCalls, data \in GenerationResults : GatewayRespond(i, data)
    \/ \E i \in 1..MaxGenCalls, ok \in BOOLEAN : SaveRespond(i, ok)
    \/ DialogCancel
    \/ HandleFormReset
    \/ \E f \in FieldIds(formSchema), v \in PreviewValues : HandleChange(f, v)
    \/ HandleSubmit
    \/ \E i \in 1..MaxSubCalls, ok \in BOOLEAN : InsertRespond(i, ok)

SpecPreview == Init /\ [][NextPreview]_vars

\* What the user types while negotiating a clarification.
DialogDescriptions == {<<"d">>, <<"d", " ", "e">>}

DialogAnswers == {<<" ">>, <<"y">>, <<"y", "z">>}

\* The user answers clarification requests: the gateway finds a contradiction in
\* every description.
NextDialog ==
    \/ \E text \in DialogDescriptions : SetDescription(text)
    \/ ClickGenerate
    \/ \E i \in 1..MaxGenCalls, data \in {ClarOne, ClarTwo} : GatewayRespond(i, data)
    \/ \E index \in 1..MaxQuestions, value \in DialogAnswers : HandleAnswerChange(index, value)
    \/ DialogCancel
    \/ HandleClarificationSubmit
    \/ TimerFire

SpecDialog == Init /\ [][NextDialog]_vars

\* A visitor opens /form/:id; the table holds one form, with id 1.
InitShared ==
    /\ InitCommon
    /\ HarnessIdle
    /\ page = "shared"
    /\ urlId \in {NoId, 1, 2}
    /\ \E schema \in FormSchemas, accepting \in BOOLEAN :
           forms = {FormRow(1, schema, accepting)}

NextShared ==
    \/ FetchForm
    \/ \E outcome \in {"data", "error", "throw"} : FetchRespond(outcome)
    \/ NavigateHome
    \/ \E id \in 1..MaxForms : ToggleFormStatus(id)
    \/ \E f \in FieldIds(formSchema), v \in FormValues : HandleChange(f, v)
    \/ HandleSubmit
    \/ \E i \in 1..MaxSubCalls, ok \in BOOLEAN : InsertRespond(i, ok)
    \/ SubmitAnother

SpecShared == InitShared /\ [][NextShared]_vars

\* The same, with the steps the program takes by itself taken eventually: the effect
\* that fetches the form and the continuations of the two requests.  Nothing makes
\* the visitor click.
SpecSharedFair ==
    /\ SpecShared
    /\ WF_vars(FetchForm)
    /\ WF_vars(\E outcome \in {"data", "error", "throw"} : FetchRespond(outcome))
    /\ WF_vars(\E i \in 1..MaxSubCalls, ok \in BOOLEAN : InsertRespond(i, ok))

InitValidate ==
    /\ InitCommon
    /\ page = "validator"
    /\ urlId = NoId
    /\ forms = {}
    /\ vField \in HarnessFields
    /\ vValue \in HarnessValues
    /\ vResult = Pending
    /\ vFirst = NoneValidated

NextValidate ==
    \/ Validate
    \/ \E value \in FormValues : Rearm(value)

SpecValidate == InitValidate /\ [][NextValidate]_vars

(***************************************************************************)
(* The claims.                                                             *)
(***************************************************************************)
\* A step that resumes generateForm call i: the gateway or the insert into forms
\* comes back.
ResponseTo(i) ==
    \/ \E kind \in FailureKinds : GatewayFail(i, kind)
    \/ GatewayThrow(i)
    \/ \E data \in GenerationResults : GatewayRespond(i, data)
    \/ \E ok \in BOOLEAN : SaveRespond(i, ok)

\* The fields of the displayed schema whose current answer validateField rejects.
InvalidIds ==
    {Fields(formSchema)[k].id : k \in
        {j \in 1..Len(Fields(formSchema)) :
            validateField(Fields(formSchema)[j],
                          MapGet(formData, Fields(formSchema)[j].id)) # NoError}}

RequiredIds ==
    {Fields(formSchema)[k].id : k \in
        {j \in 1..Len(Fields(formSchema)) : Fields(formSchema)[j].required}}

LiveCalls == {i \in DOMAIN subCalls : subCalls[i].live}

\* C1: when the auto-retry timer set by handleClarificationSubmit fires, exactly one
\* generation request is issued, and it carries the amended description (the original
\* text plus the Clarifications block), not the description as it was before.
C1_ResubmitsAmendedOnce ==
    [][TimerFire =>
          /\ Len(genCalls') = Len(genCalls) + 1
          /\ Last(genCalls').description = Head(timers).updated]_vars

\* C2: in every reachable state of a builder session at most one generation request is
\* waiting for the gateway.
C2_OneRequestInFlight ==
    Cardinality({i \in DOMAIN genCalls : genCalls[i].pc = "invoke"}) <= 1

\* C3: the response to a generation request that was in flight when the user reset the
\* builder changes neither the displayed schema, nor the form id, nor the dialog.
C3_LateResponseDiscarded ==
    [][\A i \in DOMAIN genCalls :
          (genCalls[i].abandoned /\ ResponseTo(i))
              => UNCHANGED <<formSchema, formId, showClarification, answers>>]_vars

\* C4: validateField accepts every non-empty value that matches the field's custom
\* pattern, whatever the type of the field.
C4_PatternSupersedesBuiltIn ==
    (/\ vResult # Pending
     /\ HasPattern(vField)
     /\ vValue # <<>>
     /\ RegExpTest(vField.pattern, vValue)) => vResult = NoError

\* C5: a handleSubmit that finds an invalid field leaves an Error Map with an entry,
\* holding validateField's message, for exactly the fields whose answer is invalid.
C5_ErrorMapComplete ==
    [][(HandleSubmit /\ InvalidIds # {}) =>
          /\ DOMAIN errors' = InvalidIds
          /\ \A k \in 1..Len(Fields(formSchema)) :
                 LET field == Fields(formSchema)[k]
                 IN  field.id \in InvalidIds =>
                         errors'[field.id] = validateField(field, MapGet(formData, field.id))]_vars

\* Both fields of a two-field form were invalid, and both have their entry.
C5_Witness ==
    /\ toast = ToastFixErrors
    /\ Cardinality(InvalidIds) = 2
    /\ DOMAIN errors = InvalidIds

\* C6: a handleSubmit that finds an invalid field issues no insert, stores nothing and
\* leaves the session neither submitting nor submitted.
C6_NoInsertOnErrors ==
    [][(HandleSubmit /\ InvalidIds # {}) =>
          /\ subCalls' = subCalls
          /\ submissions' = submissions
          /\ ~isSubmitting'
          /\ ~submitted']_vars

\* A validation pass has just failed, with nothing handed to storage.
C6_Witness ==
    /\ toast = ToastFixErrors
    /\ DOMAIN errors # {}
    /\ subCalls = <<>>
    /\ ~submitted

\* C7: a handleSubmit that finds every answer valid hands storage exactly one
\* submission, whose form_data is the Answer Map and so has an entry for each required
\* field, and the Error Map is empty afterwards.
C7_ValidSubmitHandsOver ==
    [][/\ (HandleSubmit /\ InvalidIds = {}) =>
              /\ Len(subCalls') = Len(subCalls) + 1
              /\ SubSeq(subCalls', 1, Len(subCalls)) = subCalls
              /\ Last(subCalls').row.form_data = formData
              /\ RequiredIds \subseteq DOMAIN Last(subCalls').row.form_data
              /\ DOMAIN errors' = {}
       /\ \A i \in LiveCalls :
              InsertRespond(i, TRUE) =>
                  /\ DOMAIN errors' = {}
                  /\ Len(submissions') = Len(submissions) + 1]_vars

\* C8: when the insert of a submit attempt fails, the Answer Map is what it was, the
\* session is not submitted, and the toast is the submission failure, which is not the
\* toast of a failed validation.
C8_InsertFailureKeepsAnswers ==
    [][\A i \in LiveCalls :
          InsertRespond(i, FALSE) =>
              /\ formData' = formData
              /\ ~submitted'
              /\ toast' = ToastSubmitFailed
              /\ toast' # ToastFixErrors]_vars

\* An insert has just failed in a session that still holds the answers it sent.
C8_Witness ==
    /\ page = "shared"
    /\ toast = ToastSubmitFailed
    /\ DynamicFormMounted
    /\ LiveCalls = {}
    /\ DOMAIN formData # {}
    /\ InvalidIds = {}
    /\ ~submitted

\* C9: in every reachable state a render session has at most one insert in flight,
\* and while it has one the submit action is disabled.
C9_OneInsertInFlight ==
    /\ Cardinality(LiveCalls) <= 1
    /\ LiveCalls # {} => ~SubmitEnabled

\* A submit attempt is unresolved and the form is on screen with its button disabled.
C9_Witness ==
    /\ FormViewShown
    /\ Cardinality(LiveCalls) = 1
    /\ ~SubmitEnabled

\* C10: whenever the builder puts a different form schema on screen, the form starts
\* with an empty Answer Map, an empty Error Map, not submitted, and with no submit
\* attempt of the previous form still to come back to it.
C10_NewFormStartsFresh ==
    [][(page = "builder" /\ formSchema' # formSchema /\ formSchema'.type = "form") =>
          /\ DOMAIN formData' = {}
          /\ DOMAIN errors' = {}
          /\ ~submitted'
          /\ ~isSubmitting'
          /\ \A i \in DOMAIN subCalls' : ~subCalls'[i].live]_vars

\* C11: the clarification answers are submitted (onSubmit fires) only when every
\* question of the clarification request on screen has an answer that is non-empty
\* after trimming.
C11_SubmitOnlyWhenAllAnswered ==
    [][HandleClarificationSubmit =>
          \A q \in 1..Len(Questions(formSchema)) :
              /\ q <= Len(answers)
              /\ answers[q] # Hole
              /\ Trim(answers[q]) # <<>>]_vars

\* Where answer i starts in the answers listed one per line.
RECURSIVE AnswerStart(_, _)
AnswerStart(as, i) ==
    IF i = 1 THEN 1 ELSE AnswerStart(as, i - 1) + Len(as[i - 1]) + 1

\* C12: the amended description built by handleClarificationSubmit is the original
\* description (a verbatim prefix), a blank line, the line "Clarifications:" and the
\* answers one per line in question order.
C12_AmendedDescriptionFormat ==
    [][HandleClarificationSubmit =>
          LET n     == Len(description)
              h     == Len(ClarificationsHeader)
              k     == Len(answers)
              block == SubSeq(description', n + h + 1, Len(description'))
          IN  /\ SubSeq(description', 1, n) = description
              /\ SubSeq(description', n + 1, n + h) = ClarificationsHeader
              /\ SubSeq(ClarificationsHeader, 1, 2) = <<"\n", "\n">>
              /\ Len(block) = AnswerStart(answers, k) + Len(answers[k]) - 1
              /\ \A i \in 1..k :
                     LET from == AnswerStart(answers, i)
                     IN  /\ SubSeq(block, from, from + Len(answers[i]) - 1) = answers[i]
                         /\ i < k => block[from + Len(answers[i])] = "\n"]_vars

\* Two different answers were merged into a description.
C12_Witness ==
    description = <<"d", " ", "e">> \o ClarificationsHeader \o <<"y", "\n", "y", "z">>

\* C13: cancelling the clarification dialog issues no generation request (none is
\* started and none is scheduled) and leaves the description text unchanged.
C13_CancelIssuesNoRequest ==
    [][DialogCancel => /\ genCalls' = genCalls
                       /\ timers' = timers
                       /\ description' = description]_vars

\* The dialog was cancelled: it is closed over a clarification request, nothing is
\* in flight and the description is still there.
C13_Witness ==
    /\ DialogMounted /\ ~showClarification
    /\ genCalls = <<>> /\ timers = <<>>
    /\ description = <<"d">>

\* C14: after the user cancels a clarification, the schema the builder displays and
\* its form id are what they were before the generation attempt that produced the
\* clarification: a form displayed before that attempt is displayed again.
C14_CancelRestoresPriorView ==
    [][DialogCancel => Preview' = prior]_vars

\* C15: every submission made for a form schema that has been persisted carries that
\* form's identifier as form_id, from the shared-form page and from the builder's
\* preview alike.
C15_SubmissionCarriesFormId ==
    [][Len(subCalls') > Len(subCalls) =>
          \A f \in forms :
              f.schema = formSchema => Last(subCalls').row.form_id = f.id]_vars

\* C16: the three generation failure modes (rate limit exceeded, credits exhausted,
\* malformed or missing result) each produce a message in the builder that differs
\* from the messages of the other two: no step is the outcome of two of them.
C16_FailureMessagesDistinct ==
    [][\A i \in DOMAIN genCalls : \A k1, k2 \in FailureKinds :
          (k1 # k2 /\ GatewayFail(i, k1)) => ~GatewayFail(i, k2)]_vars

MeetsRules ==
    /\ HasPattern(vField) => RegExpTest(vField.pattern, vValue)
    /\ vField.type = "email" => RegExpTest(emailRegex, vValue)
    /\ vField.type = "tel" => RegExpTest(phoneRegex, vValue)

\* C18: for a required field, an empty or whitespace-only value is rejected with
\* "<label> is required"; a non-empty value (one that is not empty or whitespace-only)
\* that meets the field's pattern and type rules is accepted.
C18_RequiredAndAcceptance ==
    vResult # Pending =>
        /\ (vField.required /\ IsBlank(vValue)) => vResult = vField.label \o " is required"
        /\ (vField.required /\ ~IsBlank(vValue) /\ MeetsRules) => vResult = NoError

\* A whitespace-only value of a required field was rejected as missing.
C18_Witness ==
    /\ vField.required
    /\ vValue = <<" ">>
    /\ vResult = "F is required"

\* The message of a value that fails the custom pattern.
PatternMessage ==
    IF vField.message # NoMessage THEN vField.message ELSE "Invalid " \o vField.label

\* C19 as stated: for a field with a custom pattern, every non-empty value that does
\* not match it is rejected with the custom message when one is provided and with
\* "Invalid <label>" otherwise.
C19_MismatchMessage ==
    (vResult # Pending /\ HasPattern(vField) /\ vValue # <<>>
     /\ ~RegExpTest(vField.pattern, vValue)) => vResult = PatternMessage

\* C19, amended: the same, except for a whitespace-only value of a required field,
\* which is rejected as missing by the required check that runs first.
C19_MismatchMessageUnlessMissing ==
    (vResult # Pending /\ HasPattern(vField) /\ vValue # <<>>
     /\ ~RegExpTest(vField.pattern, vValue) /\ ~(vField.required /\ IsBlank(vValue)))
        => vResult = PatternMessage

\* A value that fails the pattern of a required field was rejected with the custom
\* message.
C19_Witness ==
    /\ HasPattern(vField) /\ vField.required
    /\ vValue # <<>> /\ ~RegExpTest(vField.pattern, vValue)
    /\ vResult = "Custom message"

\* The pattern matches the value from its first to its last character.
FullMatch(p, v) == (Len(v) + 1) \in MatchEnds(p.atoms, 1, v, 1)

\* C20: a custom pattern is tested against the full value: a value of which only a
\* proper substring matches the pattern is rejected.
C20_PatternTestsFullValue ==
    (vResult # Pending /\ HasPattern(vField) /\ vValue # <<>>
     /\ RegExpTest(vField.pattern, vValue) /\ ~FullMatch(vField.pattern, vValue))
        => vResult # NoError

\* The email shape: no white space, one @ that is not the first character, and after
\* it a dot that has a character before it and a character after it.
EmailShape(v) ==
    /\ \A i \in 1..Len(v) : v[i] \notin WhiteSpace
    /\ \E a \in 2..Len(v) :
          /\ v[a] = "@"
          /\ \A i \in 1..Len(v) : v[i] = "@" => i = a
          /\ \E p \in (a + 2)..(Len(v) - 1) : v[p] = "."

\* Digits, spaces, hyphens, parentheses and plus signs only.
PhoneShape(v) ==
    \A i \in 1..Len(v) : v[i] \in Digits \cup WhiteSpace \cup {"-", "(", ")", "+"}

\* The result the built-in check of the field under test owes the value under test.
BuiltInResult ==
    IF vField.type = "email" /\ ~EmailShape(vValue) THEN "Invalid email address"
    ELSE IF vField.type = "tel" /\ ~PhoneShape(vValue) THEN "Invalid phone number"
    ELSE NoError

\* The scenario of the schema with the single required email field: the answer
\* 'not-an-email' yields the Error Map {email: 'Invalid email address'}, the answer
\* 'a@b.com' passes the validation pass.
EmailScenario ==
    LET answer(text) == MapSet(EmptyMap, "email", text)
        pass(text)   == CollectErrors(Fields(SchemaContact), 1, answer(text), EmptyMap)
    IN  /\ pass(<<"n", "o", "t", "-", "a", "n", "-", "e", "m", "a", "i", "l">>)
               = MapSet(EmptyMap, "email", "Invalid email address")
        /\ ~HasErrors(pass(<<"a", "@", "b", ".", "c", "o", "m">>))

\* C21 as stated: for a field without a custom pattern, a non-empty value of an email
\* field that lacks the email shape is rejected with "Invalid email address", a
\* non-empty value of a telephone field with a character other than a digit, space,
\* hyphen, parenthesis or plus sign with "Invalid phone number", and values that pass
\* the check are accepted; the scenario of the single required email field.
C21_BuiltInChecks ==
    /\ (vResult # Pending /\ ~HasPattern(vField) /\ vValue # <<>>) => vResult = BuiltInResult
    /\ EmailScenario

\* C21, amended: the same, except for a whitespace-only value of a required field,
\* which is rejected as missing by the required check that runs first.
C21_BuiltInChecksUnlessMissing ==
    /\ (vResult # Pending /\ ~HasPattern(vField) /\ vValue # <<>>
        /\ ~(vField.required /\ IsBlank(vValue))) => vResult = BuiltInResult
    /\ EmailScenario

\* A telephone value with a letter in it was rejected by the built-in check.
C21_Witness ==
    /\ vField.type = "tel" /\ ~HasPattern(vField)
    /\ \E i \in 1..Len(vValue) : vValue[i] = "a"
    /\ vResult = "Invalid phone number"

\* C22: editing a field removes that field's entry from the Error Map (if any), leaves
\* every other field's entry unchanged and never adds an entry: an entry is only ever
\* added by the validation pass of a submit.
C22_EditClearsOwnErrorOnly ==
    [][/\ \A f \in FieldIds(formSchema), v \in FormValues :
              HandleChange(f, v) => errors' = MapDelete(errors, f)
       /\ (\E f \in DOMAIN errors' : f \notin DOMAIN errors \/ errors'[f] # errors[f])
              => HandleSubmit]_vars

\* An edit took the entry of one field out of the Error Map and left the entry of
\* the other: the edited field is still invalid and has no entry.
C22_Witness ==
    /\ toast = NoToast
    /\ FormViewShown
    /\ DOMAIN errors = {"pin"}
    /\ InvalidIds = {"email", "pin"}
    /\ "email" \in DOMAIN formData

\* C23: after a successful submission the session is in the submitted state, and
\* choosing to submit another response returns it to the form with an empty Answer
\* Map, an empty Error Map and the same schema.
C23_SubmitAnotherStartsOver ==
    [][/\ \A i \in DOMAIN subCalls :
              (InsertRespond(i, TRUE) /\ subCalls[i].live) => (DynamicFormMounted' /\ submitted')
       /\ SubmitAnother => /\ FormViewShown'
                           /\ formData' = EmptyMap
                           /\ errors' = EmptyMap
                           /\ formSchema' = formSchema]_vars

\* A response was stored and the visitor is back at the form.
C23_Witness ==
    /\ submissions # <<>>
    /\ FormViewShown
    /\ toast = NoToast
    /\ formData = EmptyMap

\* C24: a full-form validation pass gives the same result for a field whether the
\* field is absent from the Answer Map (never touched) or present with the empty
\* string: in both cases the result validateField gives the empty string.
C24_AbsentIsEmpty ==
    [][HandleSubmit =>
          \A j \in 1..Len(Fields(formSchema)) :
              LET field == Fields(formSchema)[j]
                  error == validateField(field, <<>>)
              IN  (field.id \notin DOMAIN formData \/ formData[field.id] = <<>>) =>
                      IF error # NoError
                      THEN /\ toast' = ToastFixErrors
                           /\ field.id \in DOMAIN errors'
                           /\ errors'[field.id] = error
                      ELSE toast' = ToastFixErrors => field.id \notin DOMAIN errors']_vars

\* A validation pass over a form with a field that was emptied and a field that was
\* never touched.
C24_Witness ==
    /\ toast = ToastFixErrors
    /\ formSchema = SchemaSignup
    /\ "email" \in DOMAIN formData /\ formData["email"] = <<>>
    /\ "pin" \notin DOMAIN formData
    /\ DOMAIN errors = {"email"}

\* The form a submission is for has its accepting-responses flag off.
NotAccepting(row) == \E f \in forms : f.id = row.form_id /\ ~f.accepting_responses

\* C25: no submission is stored for a form whose accepting-responses flag is false at
\* insert time: the insert is rejected and surfaces in the session as a submission
\* failure, not as a successful submission.
C25_ClosedFormStoresNothing ==
    [][\A i \in DOMAIN subCalls : \A ok \in BOOLEAN :
          (InsertRespond(i, ok) /\ NotAccepting(subCalls[i].row)) =>
              /\ submissions' = submissions
              /\ toast' = ToastSubmitFailed
              /\ subCalls[i].live => (~submitted' /\ ~isSubmitting' /\ formData' = formData)]_vars

\* A visitor filled in a form that accepts no responses, and the submission failed.
C25_Witness ==
    /\ page = "shared"
    /\ toast = ToastSubmitFailed
    /\ \E f \in forms : f.id = urlId /\ ~f.accepting_responses
    /\ FormViewShown
    /\ formData # EmptyMap
    /\ submissions = <<>>

\* The lookup of the shared-form page is over and produced no form: the id was
\* missing, resolved to no row, or the select failed.
LookupFailed == page = "shared" /\ fetchCall = "done" /\ formSchema = NullSchema

\* C26: when the form identifier is missing, resolves to no persisted form or the
\* lookup fails, the session is terminal: no form is ever rendered and no submission
\* can be made from it, and the user is redirected to the safe default page.
C26_LookupFailureIsTerminal ==
    /\ [][LookupFailed => /\ LookupFailed' \/ page' = "home"
                          /\ ~DynamicFormMounted'
                          /\ subCalls' = subCalls
                          /\ submissions' = submissions]_vars
    /\ LookupFailed ~> (page = "home")

CopyLinkOffered == page = "builder" /\ formSchema.type = "form" /\ formId # NoId

\* C28: after a generation response is processed the builder holds nothing from the
\* prior Generation Result: the displayed result is the new one, and whenever the
\* copy-link action is offered the form id it uses identifies the persisted copy of
\* the displayed schema.
C28_ResultFullyReplaced ==
    [][\A i \in DOMAIN genCalls :
          /\ \A data \in GenerationResults : GatewayRespond(i, data) => formSchema' = data
          /\ (\E ok \in BOOLEAN : SaveRespond(i, ok)) =>
                 (CopyLinkOffered' =>
                      \E f \in forms' : f.id = formId' /\ f.schema = formSchema')]_vars

\* C29: the builder persists a form and reports successful generation only when the
\* Generation Result is tagged "form": a result tagged "clarification", or with a
\* missing or unknown tag, causes no insert into forms.
C29_OnlyTaggedFormsPersisted ==
    [][\A i \in DOMAIN genCalls :
          /\ \A data \in GenerationResults :
                 (GatewayRespond(i, data) /\ data.type # "form") =>
                     \A j \in DOMAIN genCalls' : genCalls'[j].pc = "save" => genCalls[j].pc = "save"
          /\ \A ok \in BOOLEAN :
                 (SaveRespond(i, ok) /\ (forms' # forms \/ toast' = ToastGenerated)) =>
                     genCalls[i].data.type = "form"]_vars

\* C30: whenever a new Clarification Request is shown, the dialog holds exactly one
\* answer slot per question of that request and every slot is empty, also when the
\* previous round was cancelled and the new request has another number of questions.
C30_FreshSlotsPerRequest ==
    [][\A i \in DOMAIN genCalls : \A data \in {ClarOne, ClarTwo} :
          GatewayRespond(i, data) =>
              /\ DialogOpen'
              /\ answers' = [q \in 1..Len(data.questions) |-> <<>>]]_vars

\* Each entry of the Error Map belongs to a field of the form on screen whose current
\* answer fails validation with that message.
ErrorsCurrent ==
    \A id \in DOMAIN errors :
        \E j \in 1..Len(Fields(formSchema)) :
            /\ Fields(formSchema)[j].id = id
            /\ validateField(Fields(formSchema)[j], MapGet(formData, id)) = errors[id]

\* C31: in every reachable state of a render session each Error Map entry belongs to a
\* field whose current answer fails validation with exactly that message (no error is
\* displayed for a field whose current value is valid), and the Error Map is empty
\* whenever a validation pass succeeds.
C31_ErrorsMatchAnswers ==
    [][/\ DynamicFormMounted' => ErrorsCurrent'
       /\ (HandleSubmit /\ Len(subCalls') > Len(subCalls)) => DOMAIN errors' = {}]_vars

\* C32: every generation attempt and every submit attempt re-enables its triggering
\* action once the collaborator responds: isGenerating (isSubmitting) is false after
\* the response on the success, clarification, error and exception paths, and is
\* never false while the attempt's request is still outstanding.
C32_BusyFlagsFollowRequests ==
    [][/\ \A i \in DOMAIN genCalls :
              (ResponseTo(i) /\ Len(genCalls') < Len(genCalls)) => ~isGenerating'
       /\ \A i \in DOMAIN subCalls : \A ok \in BOOLEAN :
              (InsertRespond(i, ok) /\ subCalls[i].live) => ~isSubmitting'
       /\ genCalls' # <<>> => isGenerating'
       /\ (\E i \in DOMAIN subCalls' : subCalls'[i].live) => isSubmitting']_vars
====
